---- MODULE Spec2Model ----
(***************************************************************************)
(* A model of the scryfall-mcp asset registry: the SQLite record store     *)
(* (db_manager.CardDatabase), the file registration front end              *)
(* (file_manager.FileManager.register_file) and the batch downloaders.     *)
(*                                                                         *)
(* The table downloaded_cards is a sequence of rows in rowid order: the    *)
(* id column is AUTOINCREMENT, so every INSERT appends a row whose id is   *)
(* larger than every id used before, and a scan without ORDER BY visits    *)
(* the rows in that order.                                                 *)
(***************************************************************************)
EXTENDS Naturals, Sequences, FiniteSets, TLC

VARIABLES
    schema,     \* the schema of downloaded_cards in the database file
    disk,       \* the committed rows of downloaded_cards
    conn,       \* "closed" or "open": whether a CardDatabase holds a connection
    rows,       \* the rows the open connection sees (its transaction included)
    clock,      \* CURRENT_TIMESTAMP, in seconds
    nuuid,      \* the number of uuid.uuid4() calls made so far
    putKeys,    \* history: the keys put and not removed since; in a batch, the
                \* keys whose record (art) or image file (img) the batch found
    last,       \* history: the last method call, its arguments and its result
    nops,       \* history: the number of steps taken
    prog,       \* the batch program that runs: "none", "art" or "img"
    pc,         \* where the batch program is
    tasks,      \* cards_data (art) or card_names (img)
    force,      \* force_download
    batch_size, \* batch_size of download_art_crops
    download_list,      \* cards_to_download
    idx,                \* the number of items the download loop has processed
    downloaded_count,   \* downloaded_count of the running loop
    error_count,        \* error_count of the running loop
    skipped_count,      \* skipped_count
    total_downloaded,   \* total_downloaded of download_art_crops
    total_errors,       \* total_errors of download_art_crops
    files,      \* the files of the output folder: path -> the write that made it
    trace,      \* history: external calls, delays, file writes and puts, in order
    outcomes    \* history: what happened to each item the loop processed

storeVars == <<schema, disk, conn, rows, clock, nuuid, putKeys, last, nops>>

batchVars ==
    <<prog, pc, tasks, force, batch_size, download_list, idx, downloaded_count,
      error_count, skipped_count, total_downloaded, total_errors, files, trace,
      outcomes>>

vars == <<storeVars, batchVars>>

----------------------------------------------------------------------------
(* Bounds of the model. *)

\* the number of store operations in one behaviour
MaxOps == 4
\* the number of uuid.uuid4() calls in one behaviour
MaxUuid == 3
\* the length of the task list of a batch
MaxTasks == 3
\* the largest batch_size of download_art_crops
MaxBatch == 2
\* the number of puts before the lookups of FileManager
MaxPuts == 2
\* the seconds CURRENT_TIMESTAMP advances in one behaviour
MaxClock == 2
\* the runs of download_art_crops over one JSON file
MaxRuns == 2
\* the length of the list of card names to print
MaxNames == 3
\* the number of cards a search returns
MaxCards == 3

----------------------------------------------------------------------------
(* Values. *)

\* SQL NULL, Python None
NULL == "NULL"

\* card_name values (logical keys)
Keys == {"A", "B"}

\* the (filename, (card_id, set_code, image_url)) arguments of a put: one with
\* the optional arguments left at their defaults, one with all of them given
PutArgs ==
    { [loc |-> "f1",
       meta |-> [card_id |-> NULL, set_code |-> NULL, image_url |-> NULL]],
      [loc |-> "f2",
       meta |-> [card_id |-> "c1", set_code |-> "s1", image_url |-> "u1"]] }

\* file_id values a caller makes up itself
CallerIds == {"x"}

\* str(uuid.uuid4()): the n-th call returns a token no earlier call returned
\* and no caller made up
Uuid(n) == "u" \o ToString(n)

Row(k, loc, meta, fid, date) ==
    [card_name |-> k, filename |-> loc, card_id |-> meta.card_id,
     set_code |-> meta.set_code, image_url |-> meta.image_url,
     file_id |-> fid, download_date |-> date]

RowSet(t) == {t[i] : i \in 1..Len(t)}

----------------------------------------------------------------------------
(* The schema of downloaded_cards, as _init_db finds and leaves it.        *)
(*   "absent"       no table yet (a new database file)                     *)
(*   "current"      CREATE TABLE of _init_db: id PRIMARY KEY, file_id      *)
(*                  UNIQUE, UNIQUE(card_name)                              *)
(*   "legacy_pk"    card_name is the PRIMARY KEY; eight columns, file_id   *)
(*                  among them                                             *)
(*   "legacy_nofid" UNIQUE(card_name), no file_id column                   *)
(*   "migrated"     downloaded_cards_new renamed: file_id UNIQUE and no    *)
(*                  constraint on card_name                                *)
(***************************************************************************)
Schemas == {"absent", "current", "legacy_pk", "legacy_nofid", "migrated"}

\* a mutant of HasUniqueConstraint: every existing table is taken for a
\* legacy one
HasUniqueConstraintAlways(s) == s # "absent"

\* PRAGMA table_info column 5 is the pk flag: it is 1 for card_name only
\* when card_name is the table's primary key
HasUniqueConstraint(s) == s = "legacy_pk"

\* 'file_id' in the column names of PRAGMA table_info
HasFileIdColumn(s) == s # "legacy_nofid"

\* the schema after the CREATE TABLE IF NOT EXISTS and the table rebuild
SchemaAfterRebuild(s) ==
    IF s = "absent" THEN "current"
    ELSE IF HasUniqueConstraint(s) THEN "migrated"
    ELSE s

\* INSERT INTO downloaded_cards_new SELECT * FROM downloaded_cards: the new
\* table's file_id is UNIQUE, so two rows with the same non-NULL file_id
\* abort the copy (sqlite3.IntegrityError)
CopyFails(t) ==
    \E i, j \in 1..Len(t) :
        i # j /\ t[i].file_id # NULL /\ t[i].file_id = t[j].file_id

\* _init_db raises: the copy fails, or ALTER TABLE ... ADD COLUMN file_id
\* TEXT UNIQUE, which SQLite refuses ("Cannot add a UNIQUE column")
InitDbRaises(s, t) ==
    IF HasUniqueConstraint(s) THEN CopyFails(t)
    ELSE ~HasFileIdColumn(SchemaAfterRebuild(s))

\* whether the table enforces UNIQUE(card_name)
UniqueName(s) == s \in {"current", "legacy_pk", "legacy_nofid"}

----------------------------------------------------------------------------
(* The statements of CardDatabase on a table t under schema s. *)

\* a mutant of Conflicts: only the card_name constraint replaces
ConflictsNameOnly(s, old, new) ==
    UniqueName(s) /\ old.card_name = new.card_name

\* INSERT OR REPLACE deletes every row that conflicts with the new row on a
\* UNIQUE constraint of the table: file_id, and card_name where the schema
\* has UNIQUE(card_name)
Conflicts(s, old, new) ==
    \/ UniqueName(s) /\ old.card_name = new.card_name
    \/ new.file_id # NULL /\ old.file_id = new.file_id

InsertOrReplace(s, t, new) ==
    Append(SelectSeq(t, LAMBDA old : ~Conflicts(s, old, new)), new)

\* a mutant of EffectiveFileId: a uuid is generated whatever the caller gave
EffectiveFileIdAlwaysFresh(file_id, n) == Uuid(n + 1)

\* add_card: if file_id is None: file_id = str(uuid.uuid4())
EffectiveFileId(file_id, n) ==
    IF file_id = NULL THEN Uuid(n + 1) ELSE file_id

\* a mutant of Commit: add_card without conn.commit()
CommitNothing(d, t) == d

\* conn.commit(): the connection's rows become the committed rows
Commit(d, t) == t

MatchName(t, k) == SelectSeq(t, LAMBDA r : r.card_name = k)

MatchFileId(t, f) == SelectSeq(t, LAMBDA r : r.file_id = f)

\* SELECT 1 FROM downloaded_cards WHERE card_name = ? ... fetchone() is not None
card_exists(t, k) == MatchName(t, k) # <<>>

\* SELECT * ... WHERE card_name = ? ... fetchone(): the first match, or None
get_card_info(t, k) ==
    IF MatchName(t, k) = <<>> THEN NULL ELSE Head(MatchName(t, k))

\* SELECT * ... WHERE file_id = ? ... fetchone()
get_card_by_file_id(t, f) ==
    IF MatchFileId(t, f) = <<>> THEN NULL ELSE Head(MatchFileId(t, f))

\* SELECT filename ... WHERE file_id = ?: result['filename'] if result else None
get_file_path_by_id(t, f) ==
    IF MatchFileId(t, f) = <<>> THEN NULL ELSE Head(MatchFileId(t, f)).filename

RECURSIVE ByDateDesc(_, _)
\* the rows of t by download_date, latest first; rows of one date stay in
\* rowid order, as SQLite's sorter leaves them
ByDateDesc(t, dates) ==
    IF dates = {} THEN <<>>
    ELSE LET d == CHOOSE x \in dates : \A y \in dates : y <= x
         IN  SelectSeq(t, LAMBDA r : r.download_date = d)
                \o ByDateDesc(t, dates \ {d})

\* SELECT * FROM downloaded_cards ORDER BY download_date DESC
get_all_cards(t) == ByDateDesc(t, {t[i].download_date : i \in 1..Len(t)})

\* DELETE FROM downloaded_cards WHERE card_name = ?
DeleteName(t, k) == SelectSeq(t, LAMBDA r : r.card_name # k)

\* cursor.rowcount of the DELETE
RowsAffected(t, k) == Len(MatchName(t, k))

----------------------------------------------------------------------------
(* The record store as a state machine. *)

NoMeta == [card_id |-> NULL, set_code |-> NULL, image_url |-> NULL]

\* The history record. ev is the last step: "init", "open", "open_raises",
\* "call" (a method of CardDatabase or FileManager returned), "close" or
\* "interrupted". op, k, loc, meta, fid, ret, ok and before describe the last
\* method call that returned: its name, its arguments, the file_id or the
\* boolean it returned and the rows before it. prevop and prevk are the name
\* and the key of the call before that one. seen is what the connection saw
\* when it was last closed or interrupted, leaving aside a statement whose
\* method call never returned.
NoCall ==
    [ev |-> "init", op |-> "none", k |-> NULL, loc |-> NULL, meta |-> NoMeta,
     fid |-> NULL, ret |-> NULL, ok |-> TRUE, before |-> <<>>,
     prevop |-> "none", prevk |-> NULL, seen |-> <<>>]

Call(name, k, loc, meta, fid, ret, ok) ==
    [ev |-> "call", op |-> name, k |-> k, loc |-> loc, meta |-> meta,
     fid |-> fid, ret |-> ret, ok |-> ok, before |-> rows,
     prevop |-> last.op, prevk |-> last.k, seen |-> last.seen]

\* rows of a store written by an earlier version of the program
LegacyRow(k, fid) == Row(k, "f1", NoMeta, fid, 0)

LegacyTables ==
    {<<>>}
    \cup {<<LegacyRow(k, f)>> : k \in Keys, f \in {NULL, "x"}}
    \cup {<<LegacyRow("A", f), LegacyRow("B", g)>> :
            f \in {NULL, "x"}, g \in {NULL, "y"}}

NamesOf(t) == {t[i].card_name : i \in 1..Len(t)}

FileIdsOf(t) == {t[i].file_id : i \in 1..Len(t)} \ {NULL}

\* no batch program runs
NoBatch ==
    /\ prog = "none"
    /\ pc = "none"
    /\ tasks = <<>>
    /\ force = FALSE
    /\ batch_size = 1
    /\ download_list = <<>>
    /\ idx = 0
    /\ downloaded_count = 0
    /\ error_count = 0
    /\ skipped_count = 0
    /\ total_downloaded = 0
    /\ total_errors = 0
    /\ files = <<>>
    /\ trace = <<>>
    /\ outcomes = <<>>

StoreInit ==
    /\ NoBatch
    /\ schema \in {"absent", "legacy_pk", "legacy_nofid"}
    /\ disk \in (IF schema = "absent" THEN {<<>>} ELSE LegacyTables)
    /\ schema = "legacy_nofid" => FileIdsOf(disk) = {}
    /\ conn = "closed"
    /\ rows = <<>>
    /\ clock = 0
    /\ nuuid = 0
    /\ putKeys = NamesOf(disk)
    /\ last = [NoCall EXCEPT !.seen = disk]
    /\ nops = 0

\* CardDatabase(db_path): connect and _init_db, which commits
Open ==
    /\ conn = "closed"
    /\ nops < MaxOps
    /\ ~InitDbRaises(schema, disk)
    /\ schema' = SchemaAfterRebuild(schema)
    /\ rows' = disk
    /\ disk' = Commit(disk, rows')
    /\ conn' = "open"
    /\ last' = [last EXCEPT !.ev = "open"]
    /\ nops' = nops + 1
    /\ UNCHANGED <<clock, nuuid, putKeys>>
    /\ UNCHANGED batchVars

\* CardDatabase(db_path) where _init_db raises: no object is constructed
OpenRaises ==
    /\ conn = "closed"
    /\ nops < MaxOps
    /\ InitDbRaises(schema, disk)
    /\ last' = [last EXCEPT !.ev = "open_raises"]
    /\ nops' = nops + 1
    /\ UNCHANGED <<schema, disk, conn, rows, clock, nuuid, putKeys>>
    /\ UNCHANGED batchVars

\* the body of add_card, called with file_id after n uuid4 calls
AddCardBody(name, k, loc, meta, file_id, n) ==
    LET eff == EffectiveFileId(file_id, n)
        new == Row(k, loc, meta, eff, clock)
    IN  /\ rows' = InsertOrReplace(schema, rows, new)
        /\ disk' = Commit(disk, rows')
        /\ nuuid' = IF file_id = NULL THEN n + 1 ELSE n
        /\ putKeys' = putKeys \cup {k}
        /\ last' = Call(name, k, loc, meta, file_id, eff, TRUE)
        /\ nops' = nops + 1
        /\ UNCHANGED <<schema, conn, clock>>
        /\ UNCHANGED batchVars

\* db.add_card(card_name, filename, card_id, set_code, image_url, file_id)
AddCard(k, loc, meta, file_id) ==
    /\ conn = "open"
    /\ nops < MaxOps
    /\ file_id = NULL => nuuid < MaxUuid
    /\ AddCardBody("add_card", k, loc, meta, file_id, nuuid)

\* FileManager.register_file: generate_file_id(), then add_card with it
RegisterFile(k, loc, meta) ==
    /\ conn = "open"
    /\ nops < MaxOps
    /\ nuuid < MaxUuid
    /\ AddCardBody("register_file", k, loc, meta, Uuid(nuuid + 1), nuuid + 1)

\* db.remove_card(card_name)
RemoveCard(k) ==
    /\ conn = "open"
    /\ nops < MaxOps
    /\ rows' = DeleteName(rows, k)
    /\ disk' = Commit(disk, rows')
    /\ putKeys' = putKeys \ {k}
    /\ last' = Call("remove_card", k, NULL, NoMeta, NULL, NULL,
                    RowsAffected(rows, k) > 0)
    /\ nops' = nops + 1
    /\ UNCHANGED <<schema, conn, clock, nuuid>>
    /\ UNCHANGED batchVars

\* db.close(), or the process stops between two method calls: what the
\* connection has not committed is lost
Close ==
    /\ conn = "open"
    /\ nops < MaxOps
    /\ conn' = "closed"
    /\ rows' = <<>>
    /\ last' = [last EXCEPT !.ev = "close", !.seen = rows]
    /\ nops' = nops + 1
    /\ UNCHANGED <<schema, disk, clock, nuuid, putKeys>>
    /\ UNCHANGED batchVars

\* the process stops inside add_card, after the INSERT OR REPLACE has been
\* executed and before conn.commit(): the statement is lost with the
\* connection, and add_card never returns
AddCardInterrupted ==
    /\ conn = "open"
    /\ nops < MaxOps
    /\ conn' = "closed"
    /\ rows' = <<>>
    /\ last' = [last EXCEPT !.ev = "interrupted", !.seen = rows]
    /\ nops' = nops + 1
    /\ UNCHANGED <<schema, disk, clock, nuuid, putKeys>>
    /\ UNCHANGED batchVars

StoreNext ==
    \/ Open
    \/ OpenRaises
    \/ \E k \in Keys, a \in PutArgs,
          file_id \in {NULL} \cup CallerIds \cup FileIdsOf(rows) :
            AddCard(k, a.loc, a.meta, file_id)
    \/ \E k \in Keys, a \in PutArgs : RegisterFile(k, a.loc, a.meta)
    \/ \E k \in Keys : RemoveCard(k)
    \/ Close
    \/ AddCardInterrupted

Init == StoreInit

Next == StoreNext

Spec == Init /\ [][Next]_vars

----------------------------------------------------------------------------
(* Claims about the record store, checked under Spec. *)

Puts == {"add_card", "register_file"}

HasRow(t, k, loc) ==
    \E i \in 1..Len(t) : t[i].card_name = k /\ t[i].filename = loc

\* C1: after any sequence of puts and removes, card_exists(k) is true exactly
\* when k has been put and not removed since (and is false, without raising,
\* for an absent key), and right after add_card(k, loc, card_id, set_code,
\* image_url) get_card_info(k) returns a record with that filename, card_id,
\* set_code and image_url.
C1_ExistsIffPutNotRemoved ==
    conn = "open" =>
        /\ \A k \in Keys : card_exists(rows, k) <=> k \in putKeys
        /\ (last.ev = "call" /\ last.op = "add_card") =>
              /\ card_exists(rows, last.k)
              /\ get_card_info(rows, last.k).filename = last.loc
              /\ get_card_info(rows, last.k).card_id = last.meta.card_id
              /\ get_card_info(rows, last.k).set_code = last.meta.set_code
              /\ get_card_info(rows, last.k).image_url = last.meta.image_url

\* C2: add_card(k, loc1, meta1) followed by add_card(k, loc2, meta2) leaves
\* exactly one record for k in get_all_cards, and it carries loc2 and meta2,
\* in every store CardDatabase can open, a migrated one included.
C2_PutTwiceOneRecord ==
    (last.ev = "call" /\ last.op = "add_card"
        /\ last.prevop = "add_card" /\ last.prevk = last.k) =>
        /\ Len(MatchName(get_all_cards(rows), last.k)) = 1
        /\ get_card_info(rows, last.k).filename = last.loc
        /\ get_card_info(rows, last.k).card_id = last.meta.card_id
        /\ get_card_info(rows, last.k).set_code = last.meta.set_code
        /\ get_card_info(rows, last.k).image_url = last.meta.image_url

\* C3: in every reachable state of the store no two distinct records carry
\* the same file_id (a record whose file_id is NULL carries none), whatever
\* add_card with generated or caller-supplied file_id, register_file and
\* remove_card have done; the committed rows included.
C3_FileIdUnique ==
    \A t \in {rows, disk} :
        \A i, j \in 1..Len(t) :
            (i # j /\ t[i].file_id # NULL) => t[i].file_id # t[j].file_id

\* an add_card whose caller-supplied file_id was held by a record of another
\* key, in a store with two records afterwards
C3_Witness ==
    /\ last.ev = "call" /\ last.op = "add_card"
    /\ \E i \in 1..Len(last.before) :
          /\ last.before[i].file_id = last.fid
          /\ last.before[i].card_name # last.k
    /\ Cardinality(FileIdsOf(rows)) >= 2

\* C4: the file_id of the record for k never changes while the record
\* exists: a put that overwrites the record leaves get_card_info(k).file_id
\* as it was.
C4_FileIdStable ==
    last.ev = "call" =>
        \A k \in Keys :
            (/\ card_exists(last.before, k)
             /\ card_exists(rows, k)
             /\ get_card_info(last.before, k).file_id # NULL) =>
                get_card_info(rows, k).file_id
                    = get_card_info(last.before, k).file_id

\* C5: remove_card(k) on a present key returns true, leaves card_exists(k)
\* false and every record of another key unchanged, and the record count
\* drops by exactly one; on an absent key it returns false and changes
\* nothing.
C5_RemoveFrame ==
    (last.ev = "call" /\ last.op = "remove_card") =>
        IF card_exists(last.before, last.k)
        THEN /\ last.ok
             /\ ~card_exists(rows, last.k)
             /\ rows = DeleteName(last.before, last.k)
             /\ Len(rows) = Len(last.before) - 1
        ELSE /\ ~last.ok
             /\ rows = last.before

\* C6: add_card persists before it returns: once it has returned, the
\* committed rows hold the record, and a CardDatabase reopened after a close
\* or a stop of the process sees every record the closed connection saw
\* from completed calls, the one just put included; a put interrupted before
\* its commit leaves no trace.
C6_Durable ==
    /\ (last.ev = "call" /\ last.op \in Puts) =>
            HasRow(disk, last.k, last.loc)
    /\ last.ev = "call" => disk = rows
    /\ last.ev = "open" =>
            /\ rows = last.seen
            /\ last.op \in Puts => HasRow(rows, last.k, last.loc)

\* a store reopened after add_card and a close, holding the record put
C6_Witness ==
    /\ last.ev = "open"
    /\ last.op = "add_card"
    /\ conn = "open"
    /\ HasRow(rows, last.k, last.loc)

\* C7: add_card returns the effective file_id, the caller's when one is
\* given and otherwise a generated one that no record held, and right after
\* the call get_card_by_file_id of it returns the record of the key just put
\* and get_file_path_by_id of it the filename just put.
C7_ReturnsEffectiveId ==
    (last.ev = "call" /\ last.op = "add_card") =>
        /\ last.fid # NULL => last.ret = last.fid
        /\ last.fid = NULL =>
              last.ret \notin FileIdsOf(last.before) \cup CallerIds
        /\ last.ret # NULL
        /\ MatchFileId(rows, last.ret) # <<>>
        /\ get_card_by_file_id(rows, last.ret).card_name = last.k
        /\ get_file_path_by_id(rows, last.ret) = last.loc

\* an add_card with a caller-supplied file_id that another record held
C7_Witness ==
    /\ last.ev = "call" /\ last.op = "add_card"
    /\ last.fid \in FileIdsOf(last.before)
    /\ last.ret = last.fid
    /\ get_file_path_by_id(rows, last.ret) = last.loc

----------------------------------------------------------------------------
(* Strings. Card names, set names and file names are sequences of          *)
(* one-character strings, so that str.replace and str.startswith are       *)
(* computed as Python computes them; Str gives the string for a key, a     *)
(* path or a trace.                                                        *)
(***************************************************************************)

RECURSIVE Str(_)
Str(s) == IF s = <<>> THEN "" ELSE Head(s) \o Str(Tail(s))

\* s.startswith(p)
StartsWith(s, p) == Len(p) <= Len(s) /\ SubSeq(s, 1, Len(p)) = p

RECURSIVE Replace(_, _, _)
\* s.replace(old, new), old not empty: the occurrences from left to right
Replace(s, old, new) ==
    IF s = <<>> THEN <<>>
    ELSE IF StartsWith(s, old)
         THEN new \o Replace(SubSeq(s, Len(old) + 1, Len(s)), old, new)
         ELSE <<Head(s)>> \o Replace(Tail(s), old, new)

\* os.path.splitext of an image URL, its query removed: the large and the
\* art_crop images of the card API are JPEG files
ImageExtension(url) == <<".", "j", "p", "g">>

\* a file of the output folder: its directory and its name
Path(dir, name) == [dir |-> dir, name |-> name]

\* the path as the string the program builds with os.path.join
PathStr(p) == p.dir \o "/" \o Str(p.name)

\* open(path, 'wb') and write: the file at p is created or replaced; v tells
\* which write made the content
WriteFile(f, p, v) ==
    [q \in (DOMAIN f) \cup {p} |-> IF q = p THEN v ELSE f[q]]

\* an event of the trace: "get" (an external HTTP call), "write" (a file
\* written at path p), "put" (add_card) or "sleep" (the 200 ms delay), made
\* for the task with key k
Event(e, k, p) == [e |-> e, k |-> k, p |-> p]

\* the events of kind e that tr holds for the task with key k
Events(tr, e, k) == SelectSeq(tr, LAMBDA ev : ev.e = e /\ ev.k = k)

Outcome(k, out) == [k |-> k, out |-> out]

\* the number of items with outcome in outs
CountOut(os, outs) == Len(SelectSeq(os, LAMBDA o : o.out \in outs))

\* the sequences over S of length 0..n
SeqsUpTo(S, n) == UNION {[1..m -> S] : m \in 0..n}

----------------------------------------------------------------------------
(* scryfall_art_optimized: download_art_crops. *)

\* The card objects of the JSON file: two printings of one card in one set,
\* a card object without set and collector_number, and a card without
\* image_uris.art_crop.
Printing1 ==
    [name |-> <<"A", " ", "B">>, set |-> "s", collector_number |-> "1",
     set_name |-> <<"S", ":", "T">>, art_crop |-> "url1", id |-> "id1"]

Printing2 ==
    [name |-> <<"A", " ", "B">>, set |-> "s", collector_number |-> "2",
     set_name |-> <<"S", ":", "T">>, art_crop |-> "url2", id |-> "id2"]

NoPrinting ==
    [name |-> <<"A", " ", "B">>, set |-> "", collector_number |-> "",
     set_name |-> <<"S", ":", "T">>, art_crop |-> "url3", id |-> "id3"]

NoArtCrop ==
    [name |-> <<"C">>, set |-> "s", collector_number |-> "3",
     set_name |-> <<"S", ":", "T">>, art_crop |-> NULL, id |-> "id4"]

ArtCards == {Printing1, Printing2, NoPrinting, NoArtCrop}

\* card_version_id = f"{card_name}_{set_code}_{collector_number}_art_crop"
CardVersionId(card) ==
    Str(card.name) \o "_" \o card.set \o "_" \o card.collector_number
        \o "_art_crop"

\* set_folder = os.path.join(output_folder, set_name), set_name with " " and
\* ":" replaced
SetFolder(card) ==
    ".local/scryfall_images/"
        \o Str(Replace(Replace(card.set_name, <<" ">>, <<"_">>),
                       <<":">>, <<"_">>))

\* card_name with " " and "//" replaced
ArtFileStem(card) ==
    Replace(Replace(card.name, <<" ">>, <<"_">>), <<"/", "/">>, <<"_">>)

\* image_filepath = os.path.join(set_folder, f"{card_name}{image_extension}")
ArtImagePath(card) ==
    Path(SetFolder(card), ArtFileStem(card) \o ImageExtension(card.art_crop))

\* json_filepath = os.path.join(set_folder, f"{card_name}.json")
ArtJsonPath(card) ==
    Path(SetFolder(card), ArtFileStem(card) \o <<".", "j", "s", "o", "n">>)

\* what download_art_crops_batch derives from each card of the JSON file:
\* card_version_id, image_filepath and json_filepath
ArtNames ==
    [c \in ArtCards |->
        [key |-> CardVersionId(c),
         image |-> ArtImagePath(c),
         json |-> ArtJsonPath(c),
         image_str |-> PathStr(ArtImagePath(c)),
         json_str |-> PathStr(ArtJsonPath(c))]]

\* a mutant of NeedsDownload: the store is not consulted
NeedsDownloadAlways(t, card, f) == TRUE

\* prepare_download_list: not (db.card_exists(card_version_id) and not
\* force_download)
NeedsDownload(t, card, f) == ~(card_exists(t, CardVersionId(card)) /\ ~f)

\* card.get("image_uris", {}).get("art_crop") is truthy
HasArtCrop(card) == card.art_crop # NULL

\* prepare_download_list: the cards to download, in the order of cards_data
PrepareList(t, cards, f) ==
    SelectSeq(cards, LAMBDA c : NeedsDownload(t, c, f) /\ HasArtCrop(c))

\* the row an earlier run of download_art_crops_batch put for card
EarlierRow(card, fid) ==
    Row(CardVersionId(card), PathStr(ArtImagePath(card)),
        [card_id |-> card.id, set_code |-> card.set,
         image_url |-> card.art_crop], fid, 0)

\* the records a store may hold before the run: put by an earlier run, or by
\* another writer of the store
EarlierRows == <<EarlierRow(Printing1, "old1"), EarlierRow(NoArtCrop, "old2")>>

EarlierCards == {Printing1, NoArtCrop}

EarlierTable(cs) ==
    SelectSeq(EarlierRows,
              LAMBDA r : r.card_name \in {CardVersionId(c) : c \in cs})

\* the image files of the records of cs, each made by write 0
FilesOfCards(cs) == [p \in {ArtImagePath(c) : c \in cs} |-> 0]

ArtInit ==
    /\ prog = "art"
    /\ pc = "prepare"
    /\ tasks \in SeqsUpTo(ArtCards, MaxTasks)
    /\ force \in BOOLEAN
    /\ batch_size \in 1..MaxBatch
    /\ download_list = <<>>
    /\ idx = 0
    /\ downloaded_count = 0
    /\ error_count = 0
    /\ skipped_count = 0
    /\ total_downloaded = 0
    /\ total_errors = 0
    /\ \E cs \in SUBSET EarlierCards :
          /\ rows = EarlierTable(cs)
          /\ files = FilesOfCards(cs)
    /\ trace = <<>>
    /\ outcomes = <<>>
    /\ schema \in {"current", "migrated"}
    /\ disk = rows
    /\ conn = "open"
    /\ clock = 0
    /\ nuuid = 0
    /\ putKeys = NamesOf(rows)
    /\ last = [NoCall EXCEPT !.seen = rows, !.before = rows]
    /\ nops = 0

\* cards_to_download = prepare_download_list(cards_data, db, force_download)
PrepareDownloadList ==
    /\ prog = "art"
    /\ pc = "prepare"
    /\ download_list' = PrepareList(rows, tasks, force)
    /\ pc' = "download"
    /\ UNCHANGED storeVars
    /\ UNCHANGED <<prog, tasks, force, batch_size, idx, downloaded_count,
                   error_count, skipped_count, total_downloaded, total_errors,
                   files, trace, outcomes>>

\* what client.get, raise_for_status, the two file writes can do
ArtOutcomes == {"ok", "http_error", "write_error", "json_write_error"}

\* a mutant of BatchEnds: the counts of a last batch that is not full are
\* never added to the totals
BatchEndsFullOnly(i) == i % batch_size = 0

\* the item is the last of its batch: download_art_crops_batch returns and
\* download_art_crops adds its counts to the totals
BatchEnds(i) == i % batch_size = 0 \/ i = Len(download_list)

\* one iteration of the loop of download_art_crops_batch that completes
ArtItemDone(card, out, d, e, tr, os) ==
    /\ idx' = idx + 1
    /\ trace' = tr
    /\ outcomes' = Append(outcomes, Outcome(ArtNames[card].key, os))
    /\ IF BatchEnds(idx + 1)
       THEN /\ total_downloaded' = total_downloaded + d
            /\ total_errors' = total_errors + e
            /\ downloaded_count' = 0
            /\ error_count' = 0
       ELSE /\ downloaded_count' = d
            /\ error_count' = e
            /\ UNCHANGED <<total_downloaded, total_errors>>
    /\ UNCHANGED <<prog, pc, tasks, force, batch_size, download_list,
                   skipped_count>>
    /\ UNCHANGED <<schema, conn, clock, putKeys, last, nops>>

\* an exception that download_art_crops_batch does not catch leaves the loop
\* and download_art_crops: no statistics are printed
ArtItemRaises(card, out, tr) ==
    /\ pc' = "aborted"
    /\ trace' = tr
    /\ outcomes' = Append(outcomes, Outcome(ArtNames[card].key, out))
    /\ UNCHANGED <<prog, tasks, force, batch_size, download_list, idx,
                   downloaded_count, error_count, skipped_count,
                   total_downloaded, total_errors>>
    /\ UNCHANGED <<schema, conn, clock, putKeys, last, nops>>

\* db.add_card(card_name=card_version_id, filename=image_filepath,
\* card_id=card.get("id"), set_code=set_code, image_url=art_crop_url)
ArtAddCard(card) ==
    LET new == Row(ArtNames[card].key, ArtNames[card].image_str,
                   [card_id |-> card.id, set_code |-> card.set,
                    image_url |-> card.art_crop],
                   EffectiveFileId(NULL, nuuid), clock)
    IN  /\ rows' = InsertOrReplace(schema, rows, new)
        /\ disk' = Commit(disk, rows')
        /\ nuuid' = nuuid + 1

\* One iteration of the loop of download_art_crops_batch. out is what the
\* environment does: the GET fails ("http_error"), the image file cannot be
\* written ("write_error", an OSError that nothing catches), the JSON file
\* cannot be written ("json_write_error", the same), or all succeed ("ok").
DownloadArtCropItem(out) ==
    /\ prog = "art"
    /\ pc = "download"
    /\ idx < Len(download_list)
    /\ LET card == download_list[idx + 1]
           k == ArtNames[card].key
           got == Append(trace, Event("get", k, NULL))
           img == Append(got, Event("write", k, ArtNames[card].image_str))
           put == Append(img, Event("put", k, NULL))
           js == Append(put, Event("write", k, ArtNames[card].json_str))
       IN  IF ~HasArtCrop(card)
           THEN /\ out = "ok"
                /\ ArtItemDone(card, out, downloaded_count, error_count + 1,
                               trace, "no_url")
                /\ UNCHANGED <<rows, disk, nuuid, files>>
           ELSE CASE out = "http_error" ->
                    /\ ArtItemDone(card, out, downloaded_count,
                                   error_count + 1,
                                   Append(got, Event("sleep", k, NULL)), out)
                    /\ UNCHANGED <<rows, disk, nuuid, files>>
                [] out = "write_error" ->
                    /\ ArtItemRaises(card, out, got)
                    /\ UNCHANGED <<rows, disk, nuuid, files>>
                [] out = "json_write_error" ->
                    /\ ArtItemRaises(card, out, put)
                    /\ files' = WriteFile(files, ArtNames[card].image, Len(img))
                    /\ ArtAddCard(card)
                [] OTHER ->
                    /\ ArtItemDone(card, out, downloaded_count + 1,
                                   error_count,
                                   Append(js, Event("sleep", k, NULL)), out)
                    /\ files' = WriteFile(
                                  WriteFile(files, ArtNames[card].image, Len(img)),
                                  ArtNames[card].json, Len(js))
                    /\ ArtAddCard(card)

\* the statistics download_art_crops prints after its loop
ArtReport ==
    /\ prog = "art"
    /\ pc = "download"
    /\ idx = Len(download_list)
    /\ skipped_count' = Len(tasks) - Len(download_list)
    /\ pc' = "done"
    /\ UNCHANGED storeVars
    /\ UNCHANGED <<prog, tasks, force, batch_size, download_list, idx,
                   downloaded_count, error_count, total_downloaded,
                   total_errors, files, trace, outcomes>>

\* the end of the with block of download_art_crops, reached after the
\* statistics or with an exception: CardDatabase.__exit__ closes
ArtExit ==
    /\ prog = "art"
    /\ pc \in {"done", "aborted"}
    /\ conn = "open"
    /\ conn' = "closed"
    /\ rows' = <<>>
    /\ UNCHANGED <<schema, disk, clock, nuuid, putKeys, last, nops>>
    /\ UNCHANGED batchVars

ArtNext ==
    \/ PrepareDownloadList
    \/ \E out \in ArtOutcomes : DownloadArtCropItem(out)
    \/ ArtReport
    \/ ArtExit

----------------------------------------------------------------------------
(* scryfall_card_download: download_card_images. *)

\* the card names of a request
CardNames == {<<"A">>, <<"A", " ", "B">>, <<"A", ".", "B">>}

ImgFolder == ".local/scryfall_card_images"

\* card_name_for_filename = card_name.replace(" ", "_").replace("//", "_")
CardNameForFilename(card_name) ==
    Replace(Replace(card_name, <<" ">>, <<"_">>), <<"/", "/">>, <<"_">>)

\* image_filepath = os.path.join(output_folder,
\*                               f"{card_name_for_filename}{image_extension}")
ImgImagePath(card_name, url) ==
    Path(ImgFolder, CardNameForFilename(card_name) \o ImageExtension(url))

\* existing_files = [f for f in os.listdir(output_folder)
\*                   if f.startswith(card_name_for_filename + ".")]
ExistingFiles(f, card_name) ==
    {p \in DOMAIN f :
        /\ p.dir = ImgFolder
        /\ StartsWith(p.name, CardNameForFilename(card_name) \o <<".">>)}

\* the large image URL the API gives for a card name
LargeUrl(card_name) == "large/" \o Str(card_name)

\* what download_card_images derives from each card name: the name itself
\* and image_filepath
ImgNames ==
    [n \in CardNames |->
        [key |-> Str(n),
         image |-> ImgImagePath(n, LargeUrl(n)),
         image_str |-> PathStr(ImgImagePath(n, LargeUrl(n)))]]

ImgInit ==
    /\ prog = "img"
    /\ pc = "download"
    /\ tasks \in SeqsUpTo(CardNames, MaxTasks)
    /\ force \in BOOLEAN
    /\ batch_size = 1
    /\ download_list = <<>>
    /\ idx = 0
    /\ downloaded_count = 0
    /\ error_count = 0
    /\ skipped_count = 0
    /\ total_downloaded = 0
    /\ total_errors = 0
    /\ \E ns \in SUBSET CardNames :
          /\ files = [p \in {ImgImagePath(n, LargeUrl(n)) : n \in ns} |-> 0]
          /\ putKeys = {Str(n) : n \in ns}
    /\ trace = <<>>
    /\ outcomes = <<>>
    /\ schema = "absent"
    /\ disk = <<>>
    /\ conn = "closed"
    /\ rows = <<>>
    /\ clock = 0
    /\ nuuid = 0
    /\ last = NoCall
    /\ nops = 0

\* what the two GETs and the file write can do
ImgOutcomes == {"ok", "api_error", "no_large", "image_error", "write_error"}

\* One iteration of the loop of download_card_images, with its delay. out is
\* what the environment does: the API lookup fails ("api_error"), the card
\* has no image_uris.large ("no_large"), the image GET fails
\* ("image_error"), the file cannot be written ("write_error") or all
\* succeed ("ok").
DownloadCardImagesItem(out) ==
    /\ prog = "img"
    /\ pc = "download"
    /\ idx < Len(tasks)
    /\ LET card_name == tasks[idx + 1]
           k == ImgNames[card_name].key
           path == ImgNames[card_name].image
           api == Append(trace, Event("get", k, NULL))
           image == Append(api, Event("get", k, NULL))
           written == Append(image, Event("write", k, ImgNames[card_name].image_str))
       IN  IF ExistingFiles(files, card_name) # {} /\ ~force
           THEN /\ out = "ok"
                /\ skipped_count' = skipped_count + 1
                /\ trace' = Append(trace, Event("sleep", k, NULL))
                /\ outcomes' = Append(outcomes, Outcome(k, "skipped"))
                /\ UNCHANGED <<downloaded_count, error_count, files>>
           ELSE /\ outcomes' = Append(outcomes, Outcome(k, out))
                /\ UNCHANGED skipped_count
                /\ CASE out \in {"api_error", "no_large"} ->
                        /\ error_count' = error_count + 1
                        /\ trace' = Append(api, Event("sleep", k, NULL))
                        /\ UNCHANGED <<downloaded_count, files>>
                   [] out \in {"image_error", "write_error"} ->
                        /\ error_count' = error_count + 1
                        /\ trace' = Append(image, Event("sleep", k, NULL))
                        /\ UNCHANGED <<downloaded_count, files>>
                   [] OTHER ->
                        /\ downloaded_count' = downloaded_count + 1
                        /\ files' = WriteFile(files, path, Len(written))
                        /\ trace' = Append(written, Event("sleep", k, NULL))
                        /\ UNCHANGED error_count
    /\ idx' = idx + 1
    /\ UNCHANGED storeVars
    /\ UNCHANGED <<prog, pc, tasks, force, batch_size, download_list,
                   total_downloaded, total_errors>>

\* the summary download_card_images prints after its loop
ImgReport ==
    /\ prog = "img"
    /\ pc = "download"
    /\ idx = Len(tasks)
    /\ pc' = "done"
    /\ UNCHANGED storeVars
    /\ UNCHANGED <<prog, tasks, force, batch_size, download_list, idx,
                   downloaded_count, error_count, skipped_count,
                   total_downloaded, total_errors, files, trace, outcomes>>

ImgNext ==
    \/ \E out \in ImgOutcomes : DownloadCardImagesItem(out)
    \/ ImgReport

BatchInit == ArtInit \/ ImgInit

BatchNext == ArtNext \/ ImgNext

SpecBatch == BatchInit /\ [][BatchNext]_vars

----------------------------------------------------------------------------
(* Claims about the batch downloaders, checked under SpecBatch. *)

\* the key of a task: the card_version_id, or the card name
TaskKey(task) == IF prog = "art" THEN CardVersionId(task) ELSE Str(task)

\* the batch found the task's record (art) or image file (img)
PresentAtStart(task) == TaskKey(task) \in putKeys

\* the task names something to fetch: an art_crop URL, or a card name
Fetchable(task) == IF prog = "art" THEN HasArtCrop(task) ELSE TRUE

\* the tasks of the list that satisfy Test
TasksThat(Test(_)) == SelectSeq(tasks, Test)

\* the counts of the summary
ReportDownloaded ==
    IF prog = "art" THEN total_downloaded ELSE downloaded_count

ReportErrors == IF prog = "art" THEN total_errors ELSE error_count

Failures ==
    {"http_error", "write_error", "json_write_error", "no_url", "api_error",
     "no_large", "image_error"}

\* the tasks that fail: the items whose fetch or write failed, and the tasks
\* without an art_crop URL that were not already present and kept
FailedTasks ==
    CountOut(outcomes, Failures)
    + (IF prog = "art"
       THEN Len(TasksThat(LAMBDA c : ~HasArtCrop(c)
                                     /\ ~(PresentAtStart(c) /\ ~force)))
       ELSE 0)

\* C8: in a batch a per-item failure (an HTTP error status, a missing image
\* URL, an I/O error writing the image file) adds one to the error counter
\* and does not stop the batch: the batch reaches its summary, where errors
\* is the number of failed tasks and every other task is counted as
\* downloaded or skipped.
C8_FailuresCounted ==
    /\ pc # "aborted"
    /\ pc = "done" =>
          /\ ReportErrors = FailedTasks
          /\ ReportDownloaded = CountOut(outcomes, {"ok"})
          /\ ReportDownloaded + skipped_count + ReportErrors = Len(tasks)

\* the last outcome of the task with key k is a success
LastIsOk(k) ==
    LET mine == SelectSeq(outcomes, LAMBDA o : o.k = k)
    IN  mine # <<>> /\ mine[Len(mine)].out = "ok"

\* the record or the file of a successfully forced task is the new one
Overwritten(task) ==
    IF prog = "art"
    THEN /\ HasRow(disk, CardVersionId(task), PathStr(ArtImagePath(task)))
         /\ get_card_info(disk, CardVersionId(task)).file_id
                \notin FileIdsOf(EarlierRows)
         /\ files[ArtImagePath(task)] # 0
    ELSE files[ImgImagePath(task, LargeUrl(task))] # 0

\* the record of a skipped task is the one the batch found
RecordKept(task) ==
    prog = "art" =>
        \E i \in 1..Len(EarlierRows) :
            /\ EarlierRows[i].card_name = CardVersionId(task)
            /\ get_card_info(disk, CardVersionId(task)) = EarlierRows[i]

\* the image file of a skipped task is the one the batch found (write 0)
FileKept(task) ==
    LET path == IF prog = "art" THEN ArtImagePath(task)
                ELSE ImgImagePath(task, LargeUrl(task))
    IN  path \in DOMAIN files => files[path] = 0

\* C9: for a task whose key is present in the store (download_card_images:
\* whose image file exists), a batch with force=false makes no external call
\* and no put for it, leaves its record and its file unchanged and counts it
\* in skipped; with force=true the task is fetched again (when it names
\* something to fetch) and, on success, its record and file are overwritten
\* and it is counted in downloaded, not in skipped.
C9_SkipOrForce ==
    \A i \in 1..Len(tasks) :
        PresentAtStart(tasks[i]) =>
            IF ~force
            THEN /\ \A e \in {"get", "write", "put"} :
                        Events(trace, e, TaskKey(tasks[i])) = <<>>
                 /\ RecordKept(tasks[i])
                 /\ FileKept(tasks[i])
                 /\ pc = "done" =>
                        skipped_count >= Len(TasksThat(PresentAtStart))
            ELSE pc = "done" =>
                 /\ Fetchable(tasks[i]) =>
                        Events(trace, "get", TaskKey(tasks[i])) # <<>>
                 /\ LastIsOk(TaskKey(tasks[i])) => Overwritten(tasks[i])
                 /\ ReportDownloaded = CountOut(outcomes, {"ok"})
                 /\ skipped_count + Len(TasksThat(Fetchable)) <= Len(tasks)

\* C10: in the summary of download_art_crops, skipped counts exactly the
\* tasks whose key was present in the store and not force-refreshed, and a
\* task without art_crop URL is counted in errors, never in skipped or
\* downloaded.
C10_SkippedArePresent ==
    (prog = "art" /\ pc = "done") =>
        /\ skipped_count
              = Len(TasksThat(LAMBDA c : PresentAtStart(c) /\ ~force))
        /\ total_errors
              = CountOut(outcomes, Failures)
                + Len(TasksThat(LAMBDA c : ~HasArtCrop(c)
                                           /\ ~(PresentAtStart(c) /\ ~force)))
        /\ total_downloaded = CountOut(outcomes, {"ok"})

----------------------------------------------------------------------------
(* Termination of the batch downloaders. Each loop iteration ends once its  *)
(* external calls have returned or failed, so a batch that can take a step  *)
(* eventually takes one.                                                    *)

SpecBatchLive == SpecBatch /\ WF_vars(BatchNext)

\* C11: every batch that starts eventually reaches its summary report, for
\* every task list and every combination of per-item outcomes (success, HTTP
\* failure, missing URL, file-write failure); a failing item never prevents
\* the summary.
C11_SummaryReported == <>(pc = "done")

----------------------------------------------------------------------------
(* Claims about the items of download_art_crops_batch, checked under        *)
(* SpecBatch.                                                               *)

\* the step is an iteration of download_art_crops_batch with outcome in outs
ArtItemStep(outs) ==
    /\ prog = "art"
    /\ Len(outcomes') = Len(outcomes) + 1
    /\ outcomes'[Len(outcomes')].out \in outs

\* every put of the trace directly follows the GET and the write of the
\* image file of the same item
PutsFollowWrites ==
    \A j \in 1..Len(trace) :
        trace[j].e = "put" =>
            /\ j >= 3
            /\ trace[j - 2] = Event("get", trace[j].k, NULL)
            /\ trace[j - 1].e = "write"
            /\ trace[j - 1].k = trace[j].k
            /\ \E c \in ArtCards :
                  /\ ArtNames[c].key = trace[j].k
                  /\ ArtNames[c].image_str = trace[j - 1].p

\* C12: download_art_crops_batch is all-or-nothing per item: a record is put
\* only after the item's payload was fetched and written to its file; an
\* item whose fetch fails leaves the store exactly as it was; an item counted
\* as downloaded has its record in the store, with the file just written as
\* filename.
C12_AllOrNothingPerItem ==
    /\ [](prog = "art" => PutsFollowWrites)
    /\ [][/\ ArtItemStep({"http_error"}) =>
                /\ disk' = disk
                /\ rows' = rows
                /\ files' = files
          /\ ArtItemStep({"ok"}) =>
                LET card == download_list[idx + 1]
                IN  /\ HasRow(disk', ArtNames[card].key,
                              ArtNames[card].image_str)
                    /\ ArtNames[card].image \in DOMAIN files'
                    /\ files'[ArtNames[card].image] > 0
                    /\ downloaded_count' + total_downloaded'
                          = downloaded_count + total_downloaded + 1]_vars

\* a batch where the fetch of one item failed and another item was downloaded
C12_Witness ==
    /\ prog = "art"
    /\ pc = "done"
    /\ CountOut(outcomes, {"http_error"}) >= 1
    /\ CountOut(outcomes, {"ok"}) >= 1
    /\ Events(trace, "put", outcomes[Len(outcomes)].k) # <<>>

----------------------------------------------------------------------------
(* FileManager: the lookups by file_id, over a store that add_card and      *)
(* register_file fill and a file system that changes under it. files maps   *)
(* a path to "file" (a regular file), "dir" (it exists and is no regular    *)
(* file) or "none" (it does not exist).                                     *)

\* the identifiers a caller asks for: two that uuid4 makes, one malformed
\* identifier that a caller of add_card may have stored, one malformed
\* identifier that nobody stored
LookupIds == {Uuid(1), Uuid(2)} \cup CallerIds \cup {"zz"}

\* the paths of the records
Locs == {a.loc : a \in PutArgs}

\* uuid.UUID(file_id) does not raise ValueError
ParsesAsUuid(file_id) == \E n \in 0..(MaxUuid + 1) : file_id = Uuid(n)

\* path.exists() and path.is_file()
IsFile(f, path) == path \in DOMAIN f /\ f[path] = "file"

\* SELECT ... WHERE file_id = ?, as an entry of the trace
Query(file_id) == Event("query", file_id, NULL)

\* FileManager.get_file_path: the path, or NULL
GetFilePath(t, f, file_id) ==
    LET file_path == get_file_path_by_id(t, file_id)
    IN  IF file_path # NULL /\ IsFile(f, file_path) THEN file_path ELSE NULL

\* FileManager.get_mime_type of a path without extension
GetMimeType(path) == "application/octet-stream"

\* FileManager.read_file_content: (content, mime type), or NULL; readable is
\* whether open and read succeed
ReadFileContent(t, f, file_id, readable) ==
    LET file_path == GetFilePath(t, f, file_id)
    IN  IF file_path = NULL \/ ~readable THEN NULL
        ELSE [content |-> file_path, mime_type |-> GetMimeType(file_path)]

\* FileManager.validate_resource_access
ValidateResourceAccess(t, f, file_id) ==
    IF ~ParsesAsUuid(file_id) THEN FALSE
    ELSE GetFilePath(t, f, file_id) # NULL

\* FileManager.get_resource_info: the dictionary, or NULL (the paths of the
\* model have no directory part, so file_path.name is the filename)
GetResourceInfo(t, file_id) ==
    LET card_info == get_card_by_file_id(t, file_id)
    IN  IF MatchFileId(t, file_id) = <<>> THEN NULL
        ELSE [card_name |-> card_info.card_name,
              filename |-> card_info.filename,
              mime_type |-> GetMimeType(card_info.filename),
              download_date |-> card_info.download_date,
              set_code |-> IF card_info.set_code = NULL THEN ""
                           ELSE card_info.set_code,
              card_id |-> IF card_info.card_id = NULL THEN ""
                          ELSE card_info.card_id]

FmLookups ==
    {"get_file_path", "read_file_content", "validate_resource_access",
     "get_resource_info"}

\* a lookup returns: ret is what it returned, ok is whether that is a result
\* (not None, not False), trace the queries it sent to the store
FmReturn(name, file_id, ret, ok, queries) ==
    /\ prog = "fm"
    /\ conn = "open"
    /\ last' = [Call(name, NULL, NULL, NoMeta, file_id, ret, ok)
                 EXCEPT !.prevop = "none", !.prevk = NULL]
    /\ trace' = queries
    /\ UNCHANGED <<schema, disk, conn, rows, clock, nuuid, putKeys, nops>>
    /\ UNCHANGED <<prog, pc, tasks, force, batch_size, download_list, idx,
                   downloaded_count, error_count, skipped_count,
                   total_downloaded, total_errors, files, outcomes>>

FmGetFilePath(file_id) ==
    LET ret == GetFilePath(rows, files, file_id)
    IN  FmReturn("get_file_path", file_id, ret, ret # NULL,
                 <<Query(file_id)>>)

FmReadFileContent(file_id, readable) ==
    LET ret == ReadFileContent(rows, files, file_id, readable)
    IN  FmReturn("read_file_content", file_id, ret,
                 GetFilePath(rows, files, file_id) # NULL /\ readable,
                 <<Query(file_id)>>)

FmValidateResourceAccess(file_id) ==
    LET ok == ValidateResourceAccess(rows, files, file_id)
    IN  FmReturn("validate_resource_access", file_id, NULL, ok,
                 IF ParsesAsUuid(file_id) THEN <<Query(file_id)>> ELSE <<>>)

FmGetResourceInfo(file_id) ==
    LET ret == GetResourceInfo(rows, file_id)
    IN  FmReturn("get_resource_info", file_id, ret,
                 MatchFileId(rows, file_id) # <<>>,
                 <<Query(file_id)>>)

\* the file system changes: a file is made at path, replaced by something
\* that is not a regular file, or removed
FileSystemStep(path, kind) ==
    /\ prog = "fm"
    /\ files[path] # kind
    /\ files' = [files EXCEPT ![path] = kind]
    /\ last' = [last EXCEPT !.ev = "file_system"]
    /\ UNCHANGED <<schema, disk, conn, rows, clock, nuuid, putKeys, nops>>
    /\ UNCHANGED <<prog, pc, tasks, force, batch_size, download_list, idx,
                   downloaded_count, error_count, skipped_count,
                   total_downloaded, total_errors, trace, outcomes>>

\* FileManager(), which makes its CardDatabase, on a new store
FmInit ==
    /\ prog = "fm"
    /\ pc = "none"
    /\ tasks = <<>>
    /\ force = FALSE
    /\ batch_size = 1
    /\ download_list = <<>>
    /\ idx = 0
    /\ downloaded_count = 0
    /\ error_count = 0
    /\ skipped_count = 0
    /\ total_downloaded = 0
    /\ total_errors = 0
    /\ files \in [Locs -> {"file", "none"}]
    /\ trace = <<>>
    /\ outcomes = <<>>
    /\ schema = "current"
    /\ disk = <<>>
    /\ rows = <<>>
    /\ conn = "open"
    /\ clock = 0
    /\ nuuid = 0
    /\ putKeys = {}
    /\ last = NoCall
    /\ nops = 0

FmNext ==
    \/ \E k \in Keys, a \in PutArgs, file_id \in CallerIds :
          prog = "fm" /\ nops < MaxPuts /\ AddCard(k, a.loc, a.meta, file_id)
    \/ \E k \in Keys, a \in PutArgs :
          prog = "fm" /\ nops < MaxPuts /\ RegisterFile(k, a.loc, a.meta)
    \/ \E file_id \in LookupIds : FmGetFilePath(file_id)
    \/ \E file_id \in LookupIds, readable \in BOOLEAN :
          FmReadFileContent(file_id, readable)
    \/ \E file_id \in LookupIds : FmValidateResourceAccess(file_id)
    \/ \E file_id \in LookupIds : FmGetResourceInfo(file_id)
    \/ \E path \in Locs, kind \in {"file", "dir", "none"} :
          FileSystemStep(path, kind)

SpecFiles == FmInit /\ [][FmNext]_vars

----------------------------------------------------------------------------
(* Claims about FileManager, checked under SpecFiles. *)

\* a lookup of FileManager by file_id has just returned
LookedUp(names) == last.ev = "call" /\ last.op \in names

\* C13: resolving a file by a syntactically malformed identifier (not a
\* well-formed UUID) gives the not-found result without any query to the
\* store, in get_file_path, read_file_content, validate_resource_access and
\* get_resource_info alike.
C13_MalformedRejected ==
    (LookedUp(FmLookups) /\ ~ParsesAsUuid(last.fid)) =>
        (~last.ok /\ trace = <<>>)

\* the record with file_id exists in t and its filename is no regular file
Dangling(t, f, file_id) ==
    /\ MatchFileId(t, file_id) # <<>>
    /\ ~IsFile(f, Head(MatchFileId(t, file_id)).filename)

\* C14: for a dangling record (its file no longer exists or is no regular
\* file) every lookup of FileManager by file_id (get_file_path,
\* read_file_content, validate_resource_access, get_resource_info) gives the
\* not-found result and leaves the store unchanged.
C14_DanglingNotFound ==
    (LookedUp(FmLookups) /\ Dangling(last.before, files, last.fid)) =>
        (~last.ok /\ rows = last.before /\ disk = last.before)

----------------------------------------------------------------------------
(* Claims about the schema migration of _init_db, checked under Spec. *)

\* the step is CardDatabase(db_path): _init_db ran, or raised
OpenStep == conn = "closed" /\ last'.ev \in {"open", "open_raises"}

\* every record of t is in u, with the same card_name and filename, and u
\* holds no other record
SameRecords(t, u) ==
    /\ Len(t) = Len(u)
    /\ \A i \in 1..Len(t) :
          /\ t[i].card_name = u[i].card_name
          /\ t[i].filename = u[i].filename

\* C15: the schema migration of _init_db is idempotent and row-preserving:
\* every open keeps every record with its card_name and filename, and an
\* open that is not the first one of the store changes nothing, so opening
\* a legacy store twice ends where opening it once ends.
C15_MigrationIdempotent ==
    [][OpenStep =>
          /\ SameRecords(disk, disk')
          /\ last'.ev = "open" => rows' = disk'
          /\ last.ev # "init" => (schema' = schema /\ disk' = disk)]_vars

\* a legacy store with two records, opened, closed and opened again
C15_Witness ==
    /\ nops = 3
    /\ last.ev = "open"
    /\ last.op = "none"
    /\ schema = "migrated"
    /\ conn = "open"
    /\ Len(rows) = 2

\* C16: opening a legacy store (its table enforces uniqueness on card_name
\* alone, or lacks the file_id column) completes the migration: the open
\* succeeds, the uniqueness on card_name alone is gone, every row is still
\* there and every row has a non-null file_id that no other row has.
C16_MigrationCompletes ==
    (/\ nops = 1
     /\ last.ev \in {"open", "open_raises"}
     /\ schema \in {"legacy_pk", "legacy_nofid", "migrated"}) =>
        /\ last.ev = "open"
        /\ conn = "open"
        /\ ~UniqueName(schema)
        /\ SameRecords(last.seen, rows)
        /\ \A i \in 1..Len(rows) : rows[i].file_id # NULL
        /\ \A i, j \in 1..Len(rows) :
              i # j => rows[i].file_id # rows[j].file_id

----------------------------------------------------------------------------
(* get_all_cards, over a new store that add_card fills while the clock of   *)
(* CURRENT_TIMESTAMP, which counts whole seconds, advances.                 *)

\* a second passes
Tick ==
    /\ prog = "none"
    /\ clock < MaxClock
    /\ clock' = clock + 1
    /\ last' = [last EXCEPT !.ev = "tick"]
    /\ UNCHANGED <<schema, disk, conn, rows, nuuid, putKeys, nops>>
    /\ UNCHANGED batchVars

\* db.get_all_cards() returns
GetAllCards ==
    /\ prog = "none"
    /\ conn = "open"
    /\ last' = [Call("get_all_cards", NULL, NULL, NoMeta, NULL,
                     get_all_cards(rows), TRUE)
                 EXCEPT !.prevop = "none", !.prevk = NULL]
    /\ UNCHANGED <<schema, disk, conn, rows, clock, nuuid, putKeys, nops>>
    /\ UNCHANGED batchVars

\* CardDatabase(db_path) on a new store
ListInit ==
    /\ NoBatch
    /\ schema = "current"
    /\ disk = <<>>
    /\ rows = <<>>
    /\ conn = "open"
    /\ clock = 0
    /\ nuuid = 0
    /\ putKeys = {}
    /\ last = NoCall
    /\ nops = 0

ListNext ==
    \/ \E k \in Keys, a \in PutArgs : AddCard(k, a.loc, a.meta, NULL)
    \/ \E k \in Keys : RemoveCard(k)
    \/ Tick
    \/ GetAllCards

SpecList == ListInit /\ [][ListNext]_vars

\* the position of row r in the list l
PositionIn(l, r) == CHOOSE i \in 1..Len(l) : l[i] = r

\* C17: get_all_cards returns every record exactly once, most recently
\* created first: of two records, the one whose add_card call happened
\* later (the later row of the table) comes earlier in the list, also when
\* both puts happen within one clock second.
C17_MostRecentFirst ==
    LookedUp({"get_all_cards"}) =>
        /\ Len(last.ret) = Len(rows)
        /\ \A i \in 1..Len(rows) : \E j \in 1..Len(last.ret) :
              last.ret[j] = rows[i]
        /\ \A i, j \in 1..Len(rows) :
              i < j => PositionIn(last.ret, rows[j])
                          < PositionIn(last.ret, rows[i])

----------------------------------------------------------------------------
(* print_card: print_cards_from_database. A path is the sequence of its     *)
(* components; files maps a path to "file" or "none". image_paths is        *)
(* download_list, success_count of print_images is downloaded_count, trace  *)
(* is the list print_images was called with, and outcomes holds not_found   *)
(* and what print_image returned for each path.                             *)

\* the card names a caller asks for; "C" has no record
PrintNames == Keys \cup {"C"}

\* the records of the store: one whose filename is a full path, as
\* download_art_crops stores it, one whose filename is a bare file name
PrintRecords ==
    <<Row("A", <<".local", "scryfall_images", "A.jpg">>, NoMeta, Uuid(1), 0),
      Row("B", <<"B.jpg">>, NoMeta, Uuid(2), 0)>>

\* config.input_directory
InputDirectory == <<".local", "scryfall_card_images">>

\* filename if it starts with '.local/' or '/', else
\* os.path.join(config.input_directory, filename)
ImagePath(filename) ==
    IF Len(filename) >= 2 /\ Head(filename) \in {".local", ""}
    THEN filename
    ELSE InputDirectory \o filename

PrintPaths ==
    {ImagePath(PrintRecords[i].filename) : i \in 1..Len(PrintRecords)}

\* os.path.exists(image_path)
PathExists(f, path) == path \in DOMAIN f /\ f[path] # "none"

\* print_cards_from_database(card_names) is called: get_printer, then
\* with CardDatabase() as db
PrintInit ==
    /\ prog = "print"
    /\ pc = "resolve"
    /\ tasks \in SeqsUpTo(PrintNames, MaxNames)
    /\ force = FALSE
    /\ batch_size = 1
    /\ download_list = <<>>
    /\ idx = 0
    /\ downloaded_count = 0
    /\ error_count = 0
    /\ skipped_count = 0
    /\ total_downloaded = 0
    /\ total_errors = 0
    /\ files \in [PrintPaths -> {"file", "none"}]
    /\ trace = <<>>
    /\ outcomes = <<>>
    /\ schema = "current"
    /\ \E keep \in SUBSET Keys :
          rows = SelectSeq(PrintRecords, LAMBDA r : r.card_name \in keep)
    /\ disk = rows
    /\ conn = "open"
    /\ clock = 0
    /\ nuuid = 0
    /\ putKeys = NamesOf(rows)
    /\ last = [NoCall EXCEPT !.seen = rows]
    /\ nops = 0

\* one iteration of the loop over card_names
PrintResolve ==
    /\ prog = "print"
    /\ pc = "resolve"
    /\ idx < Len(tasks)
    /\ LET card_name == tasks[idx + 1]
           found == MatchName(rows, card_name) # <<>>
           image_path == ImagePath(get_card_info(rows, card_name).filename)
       IN  IF found /\ PathExists(files, image_path)
           THEN /\ download_list' = Append(download_list, image_path)
                /\ UNCHANGED outcomes
           ELSE /\ outcomes' = Append(outcomes, Outcome(card_name, "not_found"))
                /\ UNCHANGED download_list
    /\ idx' = idx + 1
    /\ UNCHANGED storeVars
    /\ UNCHANGED <<prog, pc, tasks, force, batch_size, downloaded_count,
                   error_count, skipped_count, total_downloaded, total_errors,
                   files, trace>>

\* after the loop: printer.print_images(image_paths, ...) is called, or
\* False is returned when image_paths is empty
PrintCallSink ==
    /\ prog = "print"
    /\ pc = "resolve"
    /\ idx = Len(tasks)
    /\ idx' = 0
    /\ IF download_list # <<>>
       THEN /\ pc' = "print"
            /\ trace' = download_list
            /\ UNCHANGED storeVars
       ELSE /\ pc' = "done"
            /\ last' = Call("print_cards_from_database", NULL, NULL, NoMeta,
                            NULL, NULL, FALSE)
            /\ conn' = "closed"
            /\ rows' = <<>>
            /\ UNCHANGED trace
            /\ UNCHANGED <<schema, disk, clock, nuuid, putKeys, nops>>
    /\ UNCHANGED <<prog, tasks, force, batch_size, download_list,
                   downloaded_count, error_count, skipped_count,
                   total_downloaded, total_errors, files, outcomes>>

\* one iteration of the loop of print_images: print_image returns printed
PrintImage(printed) ==
    /\ prog = "print"
    /\ pc = "print"
    /\ idx < Len(download_list)
    /\ idx' = idx + 1
    /\ downloaded_count' = IF printed THEN downloaded_count + 1
                           ELSE downloaded_count
    /\ outcomes' = Append(outcomes,
                          Outcome(download_list[idx + 1],
                                  IF printed THEN "printed" ELSE "failed"))
    /\ UNCHANGED storeVars
    /\ UNCHANGED <<prog, pc, tasks, force, batch_size, download_list,
                   error_count, skipped_count, total_downloaded, total_errors,
                   files, trace>>

\* print_images returns success_count == total_images, which
\* print_cards_from_database returns
PrintReturn ==
    /\ prog = "print"
    /\ pc = "print"
    /\ idx = Len(download_list)
    /\ pc' = "done"
    /\ last' = Call("print_cards_from_database", NULL, NULL, NoMeta, NULL,
                    NULL, downloaded_count = Len(download_list))
    /\ conn' = "closed"
    /\ rows' = <<>>
    /\ UNCHANGED <<schema, disk, clock, nuuid, putKeys, nops>>
    /\ UNCHANGED <<prog, tasks, force, batch_size, download_list, idx,
                   downloaded_count, error_count, skipped_count,
                   total_downloaded, total_errors, files, trace, outcomes>>

PrintNext ==
    \/ PrintResolve
    \/ PrintCallSink
    \/ \E printed \in BOOLEAN : PrintImage(printed)
    \/ PrintReturn

SpecPrint == PrintInit /\ [][PrintNext]_vars

\* the card has a record whose image file exists
Printable(card_name) ==
    /\ MatchName(disk, card_name) # <<>>
    /\ PathExists(files, ImagePath(get_card_info(disk, card_name).filename))

\* the image paths of the printable cards of the request, in its order
RECURSIVE PrintablePaths(_)
PrintablePaths(names) ==
    IF names = <<>> THEN <<>>
    ELSE (IF Printable(Head(names))
          THEN <<ImagePath(get_card_info(disk, Head(names)).filename)>>
          ELSE <<>>) \o PrintablePaths(Tail(names))

\* C20: print_cards_from_database returns True only if every requested card
\* was printed: when a requested card has no record, has no image file or
\* fails to print, the result is False; and the list handed to the print
\* sink holds only paths that exist, in the order of the request.
C20_TrueOnlyIfAllPrinted ==
    /\ (prog = "print" /\ pc = "done" /\ last.ok) =>
          /\ \A i \in 1..Len(tasks) : Printable(tasks[i])
          /\ CountOut(outcomes, {"printed"}) = Len(tasks)
          /\ CountOut(outcomes, {"failed", "not_found"}) = 0
    /\ (prog = "print" /\ pc \in {"print", "done"}) =>
          /\ \A i \in 1..Len(trace) : PathExists(files, trace[i])
          /\ trace = PrintablePaths(tasks)

----------------------------------------------------------------------------
(* mcp/scryfall_server: mcp_search_cards, which groups the cards that       *)
(* search_cards returned with scryfall_search.group_cards_by_name_and_art.  *)
(* tasks is the list of cards, download_list the card_groups mapping as the *)
(* sequence of its (name, variants) items in insertion order, last.ret the  *)
(* response.                                                                *)

Card(name, set, set_name, number, artist, id) ==
    [name |-> name, set |-> set, set_name |-> set_name,
     collector_number |-> number, artist |-> artist, id |-> id]

\* The cards a search returns: two printings of one card in two sets, a
\* second printing in the first set by the same artist, and two printings of
\* another card.
SearchCards ==
    { Card("Lightning Bolt", "m10", "Magic 2010", "146",
           "Christopher Moeller", "id1"),
      Card("Lightning Bolt", "a25", "Masters 25", "141",
           "Christopher Moeller", "id2"),
      Card("Lightning Bolt", "m10", "Magic 2010", "146p",
           "Christopher Moeller", "id3"),
      Card("Counterspell", "mmq", "Mercadian Masques", "69",
           "Mark Poole", "id4"),
      Card("Counterspell", "ice", "Ice Age", "64",
           "L. A. Williams", "id5") }

\* a search result holds a card once
Distinct(s) == \A i, j \in 1..Len(s) : i # j => s[i] # s[j]

\* card['set'].upper()
Upper ==
    [m10 |-> "M10", a25 |-> "A25", mmq |-> "MMQ", ice |-> "ICE"]

\* the names of the cards in the order of their first occurrence
RECURSIVE FirstSeen(_, _)
FirstSeen(cards, seen) ==
    IF cards = <<>> THEN <<>>
    ELSE IF Head(cards).name \in seen THEN FirstSeen(Tail(cards), seen)
    ELSE <<Head(cards).name>>
            \o FirstSeen(Tail(cards), seen \cup {Head(cards).name})

\* a group that keeps only the card seen last
VariantsLastOnly(cards, name) ==
    LET s == SelectSeq(cards, LAMBDA c : c.name = name)
    IN  <<s[Len(s)]>>

\* the cards of one name, in the order of the input
Variants(cards, name) == SelectSeq(cards, LAMBDA c : c.name = name)

\* the display name of a member of a group of n cards
DisplayName(card, n) ==
    IF n > 1
    THEN card.name \o " (" \o Upper[card.set] \o " - " \o card.artist \o ")"
    ELSE card.name

\* the card with the annotations of a member of a group of n cards
Annotate(card, n) ==
    [name |-> card.name, set |-> card.set, set_name |-> card.set_name,
     collector_number |-> card.collector_number, artist |-> card.artist,
     id |-> card.id, display_name |-> DisplayName(card, n),
     alternate_art |-> n > 1]

group_cards_by_name_and_art(cards) ==
    LET names == FirstSeen(cards, {})
    IN  [g \in 1..Len(names) |->
            LET variants == Variants(cards, names[g])
            IN  [name |-> names[g],
                 variants |-> [i \in 1..Len(variants) |->
                                  Annotate(variants[i], Len(variants))]]]

\* the card_info of the response
CardInfo(card) ==
    [name |-> card.name, set |-> card.set, set_name |-> card.set_name,
     collector_number |-> card.collector_number, artist |-> card.artist,
     display_name |-> card.display_name, id |-> card.id]

\* search_cards(query) returned tasks
SearchInit ==
    /\ prog = "search"
    /\ pc = "call"
    /\ tasks \in SeqsUpTo(SearchCards, MaxCards)
    /\ Distinct(tasks)
    /\ force = FALSE
    /\ batch_size = 1
    /\ download_list = <<>>
    /\ idx = 0
    /\ downloaded_count = 0
    /\ error_count = 0
    /\ skipped_count = 0
    /\ total_downloaded = 0
    /\ total_errors = 0
    /\ files = <<>>
    /\ trace = <<>>
    /\ outcomes = <<>>
    /\ schema = "absent"
    /\ disk = <<>>
    /\ rows = <<>>
    /\ conn = "closed"
    /\ clock = 0
    /\ nuuid = 0
    /\ putKeys = {}
    /\ last = NoCall
    /\ nops = 0

\* mcp_search_cards after search_cards returned
McpSearchCards ==
    /\ prog = "search"
    /\ pc = "call"
    /\ pc' = "done"
    /\ IF tasks = <<>>
       THEN /\ UNCHANGED download_list
            /\ last' = Call("mcp_search_cards", NULL, NULL, NoMeta, NULL,
                            [status |-> "success", count |-> 0,
                             cards |-> <<>>], TRUE)
       ELSE LET card_groups == group_cards_by_name_and_art(tasks)
            IN  /\ download_list' = card_groups
                /\ last' = Call("mcp_search_cards", NULL, NULL, NoMeta, NULL,
                                [status |-> "success", count |-> Len(tasks),
                                 cards |-> [g \in 1..Len(card_groups) |->
                                    [name |-> card_groups[g].name,
                                     variants |->
                                        [i \in 1..Len(card_groups[g].variants)
                                            |-> CardInfo(
                                                card_groups[g].variants[i])]]]],
                                TRUE)
    /\ UNCHANGED <<schema, disk, conn, rows, clock, nuuid, putKeys, nops>>
    /\ UNCHANGED <<prog, tasks, force, batch_size, idx, downloaded_count,
                   error_count, skipped_count, total_downloaded, total_errors,
                   files, trace, outcomes>>

SearchNext == McpSearchCards

SpecSearch == SearchInit /\ [][SearchNext]_vars

\* the first position of a card of this name in the input
FirstIndex(cards, name) ==
    CHOOSE i \in 1..Len(cards) :
        /\ cards[i].name = name
        /\ \A j \in 1..(i - 1) : cards[j].name # name

\* the sum of the sizes of the first n groups
RECURSIVE SizeSum(_, _)
SizeSum(groups, n) ==
    IF n = 0 THEN 0 ELSE Len(groups[n].variants) + SizeSum(groups, n - 1)

Grouped == prog = "search" /\ pc = "done" /\ tasks # <<>>

\* C18: group_cards_by_name_and_art partitions its input by exact name:
\* every input card is in exactly one group, the group keys are the
\* distinct names of the input, groups come in first-seen order, the cards
\* of a group keep their input order, and the group sizes add up to the
\* length of the input.
C18_PartitionByName ==
    Grouped =>
        LET groups == download_list
        IN  /\ \A i \in 1..Len(tasks) :
                  Cardinality({<<g, p>> \in
                        (1..Len(groups)) \X (1..Len(tasks)) :
                            /\ p <= Len(groups[g].variants)
                            /\ groups[g].variants[p].id = tasks[i].id}) = 1
            /\ {groups[g].name : g \in 1..Len(groups)}
                  = {tasks[i].name : i \in 1..Len(tasks)}
            /\ \A g, h \in 1..Len(groups) :
                  g < h => FirstIndex(tasks, groups[g].name)
                              < FirstIndex(tasks, groups[h].name)
            /\ \A g \in 1..Len(groups) :
                  /\ \A p \in 1..Len(groups[g].variants) :
                        groups[g].variants[p].name = groups[g].name
                  /\ \A p, q \in 1..Len(groups[g].variants) :
                        p < q =>
                           \E i, j \in 1..Len(tasks) :
                              /\ i < j
                              /\ tasks[i].id = groups[g].variants[p].id
                              /\ tasks[j].id = groups[g].variants[q].id
            /\ SizeSum(groups, Len(groups)) = Len(tasks)

\* a search whose cards of one name are not adjacent was grouped
C18_Witness ==
    /\ Grouped
    /\ Len(tasks) = 3
    /\ tasks[1].name = tasks[3].name
    /\ tasks[1].name # tasks[2].name
    /\ Len(download_list) = 2
    /\ Len(download_list[1].variants) = 2

\* C19: every member of a group with more than one member is marked as an
\* alternate-art variant and has a display_name built from its set and
\* artist, and the display names of the members of one group are pairwise
\* distinct; the member of a group of one has the plain card name as its
\* display_name.
C19_DisplayNames ==
    Grouped =>
        \A g \in 1..Len(download_list) :
            LET variants == download_list[g].variants
            IN  IF Len(variants) > 1
                THEN /\ \A p \in 1..Len(variants) :
                           /\ variants[p].alternate_art
                           /\ variants[p].display_name # variants[p].name
                     /\ \A p, q \in 1..Len(variants) :
                           p # q => variants[p].display_name
                                       # variants[q].display_name
                ELSE variants[1].display_name = variants[1].name

----------------------------------------------------------------------------
(* CardDatabase._init_db statement by statement, with the process stopping  *)
(* or a statement raising at any of them. schema and disk are the committed *)
(* downloaded_cards table of the database file, rows the table as the       *)
(* connection sees it; files holds the rest of the database state: the      *)
(* schema of downloaded_cards as the connection sees it (schema), the table *)
(* downloaded_cards_new as the connection sees it (new) and as committed    *)
(* (committed_new), and whether the connection has an open transaction      *)
(* (txn). pc is the statement _init_db executes next.                       *)

NoTable == [exists |-> FALSE, rows |-> <<>>]

\* the statements of _init_db that change the schema
Ddl == {"create", "create_new", "drop", "rename", "add_column"}

\* a mutant of ImplicitCommit: the transaction of the copy is committed
\* before DROP TABLE and ALTER TABLE run
ImplicitCommitBeforeDdl(stmt) == stmt \in Ddl

\* cursor.execute commits nothing by itself: the statements of _init_db that
\* follow the INSERT run inside its transaction, until conn.commit()
ImplicitCommit(stmt) == FALSE

\* the statement takes effect in the database file at once: no transaction
\* is open (sqlite3 opens one before an INSERT or UPDATE only)
Autocommitted(stmt) == ~files.txn \/ ImplicitCommit(stmt)

MigrateInit ==
    /\ prog = "migrate"
    /\ pc = "closed"
    /\ tasks = <<>>
    /\ force = FALSE
    /\ batch_size = 1
    /\ download_list = <<>>
    /\ idx = 0
    /\ downloaded_count = 0
    /\ error_count = 0
    /\ skipped_count = 0
    /\ total_downloaded = 0
    /\ total_errors = 0
    /\ files = [schema |-> "absent", new |-> NoTable,
                committed_new |-> NoTable, txn |-> FALSE]
    /\ trace = <<>>
    /\ outcomes = <<>>
    /\ schema \in {"absent", "legacy_pk", "legacy_nofid"}
    /\ disk \in (IF schema = "absent" THEN {<<>>} ELSE LegacyTables)
    /\ schema = "legacy_nofid" => FileIdsOf(disk) = {}
    /\ conn = "closed"
    /\ rows = <<>>
    /\ clock = 0
    /\ nuuid = 0
    /\ putKeys = NamesOf(disk)
    /\ last = [NoCall EXCEPT !.seen = disk]
    /\ nops = 0

\* what no statement of _init_db changes
MigrateFrame ==
    /\ UNCHANGED <<clock, nuuid, putKeys, nops>>
    /\ UNCHANGED <<prog, tasks, force, batch_size, download_list, idx,
                   downloaded_count, error_count, skipped_count,
                   total_downloaded, total_errors, trace>>

\* one statement of _init_db: the connection then sees downloaded_cards with
\* schema s and rows t and downloaded_cards_new as n; txn tells whether a
\* transaction is open afterwards
Execute(stmt, next, s, t, n, txn) ==
    /\ prog = "migrate"
    /\ pc = stmt
    /\ pc' = next
    /\ rows' = t
    /\ IF stmt \in Ddl /\ Autocommitted(stmt)
       THEN /\ schema' = s
            /\ disk' = t
            /\ files' = [schema |-> s, new |-> n, committed_new |-> n,
                         txn |-> FALSE]
       ELSE /\ files' = [files EXCEPT !.schema = s, !.new = n, !.txn = txn]
            /\ UNCHANGED <<schema, disk>>
    /\ last' = [last EXCEPT !.ev = stmt]
    /\ UNCHANGED <<conn, outcomes>>
    /\ MigrateFrame

\* CardDatabase(db_path): sqlite3.connect
Connect ==
    /\ prog = "migrate"
    /\ pc = "closed"
    /\ nops < MaxOps
    /\ pc' = "create"
    /\ conn' = "open"
    /\ rows' = disk
    /\ files' = [schema |-> schema, new |-> files.committed_new,
                 committed_new |-> files.committed_new, txn |-> FALSE]
    /\ last' = [last EXCEPT !.ev = "connect"]
    /\ nops' = nops + 1
    /\ UNCHANGED <<schema, disk, clock, nuuid, putKeys>>
    /\ UNCHANGED <<prog, tasks, force, batch_size, download_list, idx,
                   downloaded_count, error_count, skipped_count,
                   total_downloaded, total_errors, trace, outcomes>>

\* CREATE TABLE IF NOT EXISTS downloaded_cards
CreateTable ==
    Execute("create", "check",
            IF files.schema = "absent" THEN "current" ELSE files.schema,
            rows, files.new, files.txn)

\* PRAGMA table_info(downloaded_cards) and the test of has_unique_constraint
CheckUniqueConstraint ==
    Execute("check",
            IF HasUniqueConstraint(files.schema) THEN "create_new"
            ELSE "check_fid",
            files.schema, rows, files.new, files.txn)

\* CREATE TABLE IF NOT EXISTS downloaded_cards_new
CreateNewTable ==
    Execute("create_new", "copy", files.schema, rows,
            [exists |-> TRUE, rows |-> files.new.rows], files.txn)

\* INSERT INTO downloaded_cards_new SELECT * FROM downloaded_cards, which
\* opens a transaction
CopyRows ==
    /\ ~CopyFails(files.new.rows \o rows)
    /\ Execute("copy", "drop", files.schema, rows,
               [exists |-> TRUE, rows |-> files.new.rows \o rows], TRUE)

\* DROP TABLE downloaded_cards
DropOldTable ==
    Execute("drop", "rename", "absent", <<>>, files.new, files.txn)

\* ALTER TABLE downloaded_cards_new RENAME TO downloaded_cards
RenameNewTable ==
    Execute("rename", "check_fid", "migrated", files.new.rows, NoTable,
            files.txn)

\* PRAGMA table_info(downloaded_cards) and the test of 'file_id' not in
\* columns
CheckFileIdColumn ==
    Execute("check_fid",
            IF HasFileIdColumn(files.schema) THEN "commit" ELSE "add_column",
            files.schema, rows, files.new, files.txn)

\* self.conn.commit() at the end of _init_db: the CardDatabase is made
CommitInit ==
    /\ prog = "migrate"
    /\ pc = "commit"
    /\ pc' = "ready"
    /\ schema' = files.schema
    /\ disk' = Commit(disk, rows)
    /\ files' = [files EXCEPT !.committed_new = files.new, !.txn = FALSE]
    /\ last' = [last EXCEPT !.ev = "open"]
    /\ UNCHANGED <<conn, rows, outcomes>>
    /\ MigrateFrame

\* the connection goes away and what it has not committed is rolled back;
\* outcomes records the statement that was not executed
Rollback(ev) ==
    /\ pc' = "closed"
    /\ outcomes' = Append(outcomes, Outcome(pc, ev))
    /\ conn' = "closed"
    /\ rows' = <<>>
    /\ files' = [files EXCEPT !.schema = "absent", !.new = NoTable,
                              !.txn = FALSE]
    /\ last' = [last EXCEPT !.ev = ev]
    /\ UNCHANGED <<schema, disk>>
    /\ MigrateFrame

\* a statement of _init_db raises: the copy (sqlite3.IntegrityError), or
\* ALTER TABLE downloaded_cards ADD COLUMN file_id TEXT UNIQUE, which SQLite
\* refuses; __init__ raises and the connection is dropped
StatementRaises ==
    /\ prog = "migrate"
    /\ pc \in {"copy", "add_column"}
    /\ pc = "copy" => CopyFails(files.new.rows \o rows)
    /\ Rollback("open_raises")

\* the process stops before the statement at pc, or the database is closed
Stop ==
    /\ prog = "migrate"
    /\ pc \notin {"closed"}
    /\ Rollback(IF pc = "ready" THEN "close" ELSE "interrupted")

MigrateNext ==
    \/ Connect
    \/ CreateTable
    \/ CheckUniqueConstraint
    \/ CreateNewTable
    \/ CopyRows
    \/ DropOldTable
    \/ RenameNewTable
    \/ CheckFileIdColumn
    \/ CommitInit
    \/ StatementRaises
    \/ Stop

SpecMigrate == MigrateInit /\ [][MigrateNext]_vars

\* C23: if the migration of _init_db aborts at any step (after creating the
\* new table, after copying the rows, after dropping the old table, at the
\* file_id column), the original table is not corrupted: the database file
\* keeps the table downloaded_cards with the records it had before the
\* migration, and a store reopened afterwards holds exactly these records,
\* migrated or not.
C23_AbortKeepsRecords ==
    /\ disk = last.seen
    /\ schema = "absent" => last.seen = <<>>
    /\ pc = "ready" => rows = last.seen /\ files.schema = schema

\* a store reopened and migrated after a migration that stopped between the
\* DROP TABLE and the RENAME
C23_Witness ==
    /\ pc = "ready"
    /\ schema = "migrated"
    /\ Len(rows) = 2
    /\ \E i \in 1..Len(outcomes) : outcomes[i] = Outcome("rename", "interrupted")
    /\ ~files.committed_new.exists

----------------------------------------------------------------------------
(* The frame of add_card, checked under Spec. *)

\* C25: add_card(k, ...) changes only the record for key k: for every other
\* key j the records of j (existence, filename, metadata and file_id) are
\* the same before and after the call, also when the caller supplies a
\* file_id that a record of another key holds; register_file, which calls
\* add_card, likewise.
C25_AddCardFrame ==
    (last.ev = "call" /\ last.op \in Puts) =>
        \A j \in Keys \ {last.k} :
            MatchName(rows, j) = MatchName(last.before, j)

----------------------------------------------------------------------------
(* Further claims about the batch downloaders, checked under SpecBatch. *)

\* C21: during a batch the external calls are sequential and between any
\* two consecutive external calls (API lookup or payload fetch, failed or
\* not) the 200 ms delay occurs: no trace of download_card_images or
\* download_art_crops_batch holds two HTTP calls with no delay between them.
C21_DelayBetweenCalls ==
    \A i, j \in 1..Len(trace) :
        (i < j /\ trace[i].e = "get" /\ trace[j].e = "get") =>
            \E m \in (i + 1)..(j - 1) : trace[m].e = "sleep"

\* C26: after any batch of download_art_crops_batch, records with different
\* logical keys have different filenames, so a later download never
\* overwrites the file an earlier record refers to.
C26_DistinctKeysDistinctFiles ==
    prog = "art" =>
        \A i, j \in 1..Len(disk) :
            disk[i].card_name # disk[j].card_name
                => disk[i].filename # disk[j].filename

\* C27: within one non-forced run of download_art_crops each logical key is
\* fetched at most once, also when the task list holds the same card
\* several times: once the record of the first occurrence has been stored,
\* no later occurrence is fetched.
C27_FetchedAtMostOnce ==
    (prog = "art" /\ ~force) =>
        \A i, j \in 1..Len(trace) :
            (i < j /\ trace[i].e = "put" /\ trace[j].e = "get")
                => trace[i].k # trace[j].k

\* C28: when a batch runs to completion every task is counted in exactly
\* one of downloaded, skipped and errors: downloaded + skipped + errors is
\* the length of the task list, in download_card_images and in
\* download_art_crops alike.
C28_CountsAddUp ==
    pc = "done" =>
        /\ ReportDownloaded + skipped_count + ReportErrors = Len(tasks)
        /\ ReportDownloaded >= 0 /\ skipped_count >= 0 /\ ReportErrors >= 0
        /\ ReportDownloaded + ReportErrors = Len(outcomes)
              - CountOut(outcomes, {"skipped"})
        /\ prog = "img" => skipped_count = CountOut(outcomes, {"skipped"})

\* a run of download_art_crops with two batches, the second one partial,
\* that downloaded, skipped and failed
C28_Witness ==
    /\ prog = "art"
    /\ pc = "done"
    /\ batch_size = 2
    /\ Len(download_list) = 3
    /\ total_downloaded >= 1
    /\ total_errors >= 1

\* C30: download_card_images with force_download false skips a card only if
\* an image of that same card name was saved earlier: files saved for other
\* card names never make it skip a card.
C30_SkipsOnlySameName ==
    (prog = "img" /\ ~force) =>
        \A i \in 1..Len(outcomes) :
            outcomes[i].out = "skipped" =>
                \/ outcomes[i].k \in putKeys
                \/ \E j \in 1..(i - 1) :
                      outcomes[j] = Outcome(outcomes[i].k, "ok")

\* download_art_crops_batch called once with the whole download list: the
\* store, the counts and the fetches after its first n items, the n-th
\* item having the outcome the run recorded for it
RECURSIVE Unchunked(_)
Unchunked(n) ==
    IF n = 0
    THEN [rows |-> last.seen, downloaded |-> 0, errors |-> 0, gets |-> <<>>,
          nuuid |-> 0]
    ELSE LET u == Unchunked(n - 1)
             card == download_list[n]
             out == outcomes[n].out
             new == Row(ArtNames[card].key, ArtNames[card].image_str,
                        [card_id |-> card.id, set_code |-> card.set,
                         image_url |-> card.art_crop],
                        Uuid(u.nuuid + 1), 0)
             stored == out \in {"ok", "json_write_error"}
         IN  [rows |-> IF stored THEN InsertOrReplace(schema, u.rows, new)
                       ELSE u.rows,
              downloaded |-> IF out = "ok" THEN u.downloaded + 1
                             ELSE u.downloaded,
              errors |-> IF out = "http_error" THEN u.errors + 1
                         ELSE u.errors,
              gets |-> Append(u.gets, ArtNames[card].key),
              nuuid |-> IF stored THEN u.nuuid + 1 ELSE u.nuuid]

\* the keys of the external fetches of the trace, in their order
Fetches ==
    LET gets == SelectSeq(trace, LAMBDA ev : ev.e = "get")
    IN  [i \in 1..Len(gets) |-> gets[i].k]

\* C22: chunking has no semantic effect in download_art_crops: whatever the
\* batch_size, the order of the external fetches, the store contents and
\* the final counts (downloaded, skipped, errors, total) are those of one
\* pass over the whole download list, which depend on the task list, the
\* initial store, force_download and the outcome of each fetch only.
C22_ChunkingHasNoEffect ==
    (prog = "art" /\ pc # "prepare") =>
        LET u == Unchunked(Len(outcomes))
        IN  /\ download_list = PrepareList(last.seen, tasks, force)
            /\ Fetches = u.gets
            /\ disk = u.rows
            /\ pc = "done" =>
                  /\ Len(outcomes) = Len(download_list)
                  /\ total_downloaded = u.downloaded
                  /\ total_errors = u.errors
                  /\ skipped_count = Len(tasks) - Len(download_list)

\* a run with batch_size 2 over three cards to download: the second batch
\* is a partial one
C22_Witness ==
    /\ prog = "art"
    /\ pc = "done"
    /\ batch_size = 2
    /\ Len(download_list) = 3
    /\ CountOut(outcomes, {"ok"}) = 3
    /\ Len(disk) >= 2

\* the items of the download list whose record was put, as positions
StoredItems ==
    {n \in 1..Len(outcomes) : outcomes[n].out \in {"ok", "json_write_error"}}

\* C24: the logical key of the art-crop coordinator is a function of (card
\* name, set code, collector number, asset type): the key computed for a
\* task by prepare_download_list is the key under which
\* download_art_crops_batch puts its record, and two tasks of the same name
\* without set code and collector number get the same key, so the later
\* successful fetch overwrites the earlier record and exactly one record of
\* the key remains, that of the later fetch.
C24_KeyDeterministic ==
    prog = "art" =>
        /\ \A n \in StoredItems :
              LET k == CardVersionId(download_list[n])
              IN  /\ outcomes[n].k = k
                  /\ card_exists(disk, k)
                  /\ ~NeedsDownload(disk, download_list[n], FALSE)
        /\ \A m, n \in StoredItems :
              LET c == download_list[m]
                  d == download_list[n]
                  k == CardVersionId(d)
              IN  (/\ m < n
                   /\ c.name = d.name
                   /\ c.set = "" /\ d.set = ""
                   /\ c.collector_number = "" /\ d.collector_number = "") =>
                      /\ CardVersionId(c) = k
                      /\ Len(MatchName(disk, k)) = 1

----------------------------------------------------------------------------
(* download_art_crops run again over the same JSON file. nops counts the    *)
(* runs that have ended; last.before is the store the run found and last.ok *)
(* tells whether every fetch of the run before it succeeded.                *)

\* download_art_crops(json_filepath, force_download, batch_size) is called
\* again with the arguments of the run that ended
ArtRerun ==
    /\ prog = "art"
    /\ pc = "done"
    /\ conn = "closed"
    /\ nops + 1 < MaxRuns
    /\ nops' = nops + 1
    /\ pc' = "prepare"
    /\ conn' = "open"
    /\ rows' = disk
    /\ download_list' = <<>>
    /\ idx' = 0
    /\ downloaded_count' = 0
    /\ error_count' = 0
    /\ skipped_count' = 0
    /\ total_downloaded' = 0
    /\ total_errors' = 0
    /\ trace' = <<>>
    /\ outcomes' = <<>>
    /\ putKeys' = NamesOf(disk)
    /\ last' = [last EXCEPT !.ev = "rerun", !.seen = disk, !.before = disk,
                            !.ok = CountOut(outcomes, {"ok"}) = Len(outcomes)]
    /\ UNCHANGED <<schema, disk, clock, nuuid>>
    /\ UNCHANGED <<prog, tasks, force, batch_size, files>>

RerunNext == ArtNext \/ ArtRerun

SpecRerun == ArtInit /\ [][RerunNext]_vars

\* C29: re-running is idempotent: after a non-forced run of
\* download_art_crops in which every fetch succeeded, a second non-forced
\* run over the same task list issues no external fetch, reports
\* downloaded = 0 and errors = 0 with skipped equal to the number of tasks,
\* and leaves the store unchanged.
C29_RerunIdempotent ==
    (prog = "art" /\ nops >= 1 /\ ~force /\ last.ok) =>
        /\ \A i \in 1..Len(trace) : trace[i].e \notin {"get", "put", "write"}
        /\ disk = last.before
        /\ pc # "prepare" => download_list = <<>>
        /\ pc # "aborted"
        /\ pc = "done" =>
              /\ total_downloaded = 0
              /\ total_errors = 0
              /\ skipped_count = Len(tasks)

\* a second non-forced run that ended, after a first run that fetched and
\* stored two cards
C29_Witness ==
    /\ prog = "art"
    /\ nops = 1
    /\ pc = "done"
    /\ ~force
    /\ last.ok
    /\ nuuid >= 2
    /\ Len(tasks) >= 2
    /\ skipped_count = Len(tasks)

====
